---- MODULE Spec2Model ----
(***************************************************************************)
(* Model of bot.py: an EPUB reader bot.                                    *)
(*                                                                         *)
(*   - clean_html / split_pages: extraction and pagination (pure).         *)
(*   - handle_epub, send_page, callbacks: asyncio handlers sharing the     *)
(*     Mongo collection `users` (the stored cursor) and the process-wide   *)
(*     dict `book_cache` (the book sessions).  Handlers run on one event   *)
(*     loop: a handler runs without interruption from one `await` to the   *)
(*     next, and other handlers may run while it is suspended in an await. *)
(*     pymongo calls are blocking calls, not awaits.                       *)
(*                                                                         *)
(* Strings are sequences of one-character strings.  The page budget is     *)
(* scaled down from 900 so that strings around the budget are enumerable.  *)
(***************************************************************************)
EXTENDS Integers, Sequences, FiniteSets, TLC

\* ------------------------------------------------------------------ bounds
NumTasks == 2          \* handler invocations in flight at once
MaxDocBlocks == 2      \* uploaded documents have 0..MaxDocBlocks elements
MaxNavPages == 3       \* navigation scenario: books of 1..MaxNavPages pages
MaxBlocks == 2         \* pagination inputs have 0..MaxBlocks blocks
MaxTokens == 3         \* tokens per block of a pagination input
MaxLenBlocks == 4      \* block-length scenario: inputs of 0..MaxLenBlocks blocks
MaxWordTokens == 4     \* word scenario: a block of 1..MaxWordTokens tokens

\* ------------------------------------------------------- program constants
\* line 27 sets 900; the model scales the budget down, every comparison with it
\* is the code's
MAX_CHARS_PER_PAGE == 6

Users == {1, 2}
\* the users whose events Spec dispatches
Readers == {1}
Tasks == 1..NumTasks

SP == " "
NL == "\n"
Letters == <<"a", "b", "c", "d", "e", "f">>
Uppers == <<"A", "B", "C", "D", "E", "F">>

Min(a, b) == IF a < b THEN a ELSE b
Max(a, b) == IF a > b THEN a ELSE b

\* ------------------------------------------------------- string primitives
IsSpace(c) == c \in {SP, NL}

RECURSIVE LStrip(_)
LStrip(s) ==
    IF s = <<>> THEN s
    ELSE IF IsSpace(Head(s)) THEN LStrip(Tail(s)) ELSE s

RECURSIVE RStrip(_)
RStrip(s) ==
    IF s = <<>> THEN s
    ELSE IF IsSpace(s[Len(s)]) THEN RStrip(SubSeq(s, 1, Len(s) - 1)) ELSE s

\* str.strip(): leading and trailing whitespace removed
StripLeft(s) == LStrip(s)
Strip(s) == RStrip(LStrip(s))

\* str.split(" "): cut at every single space; adjacent spaces give empty tokens
RECURSIVE SplitFrom(_, _)
SplitFrom(cur, rest) ==
    IF rest = <<>> THEN <<cur>>
    ELSE IF Head(rest) = SP THEN <<cur>> \o SplitFrom(<<>>, Tail(rest))
    ELSE SplitFrom(Append(cur, Head(rest)), Tail(rest))

Split(s) == SplitFrom(<<>>, s)

\* str.upper() on the model's alphabet
UpperChar(c) ==
    IF \E i \in 1..Len(Letters) : Letters[i] = c
    THEN Uppers[CHOOSE i \in 1..Len(Letters) : Letters[i] = c]
    ELSE c

Upper(s) == [i \in 1..Len(s) |-> UpperChar(s[i])]

\* a string of n copies of the character c
Repeat(c, n) == [i \in 1..n |-> c]

RECURSIVE Concat(_)
Concat(ss) == IF ss = <<>> THEN <<>> ELSE Head(ss) \o Concat(Tail(ss))

\* ------------------------------------------------------------- split_pages
\* the word loop of an over-budget paragraph (lines 85-90)
RECURSIVE PackWords(_, _, _)
PackWords(words, chunk, pgs) ==
    IF words = <<>> THEN [pages |-> pgs, chunk |-> chunk]
    ELSE LET w == Head(words) IN
         IF Len(chunk) + Len(w) + 1 > MAX_CHARS_PER_PAGE
         THEN PackWords(Tail(words), w \o <<SP>>, Append(pgs, Strip(chunk)))
         ELSE PackWords(Tail(words), chunk \o w \o <<SP>>, pgs)

\* lines 82-93: the pages after an over-budget paragraph p
FallbackWhole(p, pgs) == Append(pgs, p)
Fallback(p, pgs) ==
    LET r == PackWords(Split(p), <<>>, pgs) IN
    IF Strip(r.chunk) # <<>> THEN Append(r.pages, Strip(r.chunk)) ELSE r.pages

\* the paragraph loop (lines 80-100)
RECURSIVE SplitLoop(_, _, _)
SplitLoop(ps, pgs, current_page) ==
    IF ps = <<>> THEN [pages |-> pgs, current_page |-> current_page]
    ELSE LET p == Head(ps) IN
         IF Len(p) > MAX_CHARS_PER_PAGE
         THEN SplitLoop(Tail(ps), Fallback(p, pgs), current_page)
         ELSE IF Len(current_page) + Len(p) + 2 > MAX_CHARS_PER_PAGE
         THEN SplitLoop(Tail(ps), Append(pgs, Strip(current_page)), p \o <<NL, NL>>)
         ELSE SplitLoop(Tail(ps), pgs, current_page \o p \o <<NL, NL>>)

split_pagesNoFinalFlush(ps) == SplitLoop(ps, <<>>, <<>>).pages
split_pages(ps) ==
    LET r == SplitLoop(ps, <<>>, <<>>) IN
    IF Strip(r.current_page) # <<>>
    THEN Append(r.pages, Strip(r.current_page))
    ELSE r.pages

\* -------------------------------------------------------------- clean_html
\* An element is one h1/h2/h3/p element of an item, with its stripped text.
RECURSIVE clean_html(_)
clean_html(els) ==
    IF els = <<>> THEN <<>>
    ELSE LET el == Head(els) IN
         IF el.text = <<>> THEN clean_html(Tail(els))
         ELSE IF el.tag = "h"
         THEN <<(<<"*">> \o Upper(el.text) \o <<"*">>)>> \o clean_html(Tail(els))
         ELSE <<el.text>> \o clean_html(Tail(els))


\* ------------------------------------------------------------ the documents
\* An uploaded document is its spine: a sequence of items, each with the
\* elements that clean_html sees and whether its bytes decode as UTF-8.
Element(tag, text) == [tag |-> tag, text |-> text]
Item(decodes, els) == [decodes |-> decodes, elements |-> els]

\* n elements: a heading, then paragraphs, each filling one page, and an
\* empty paragraph that clean_html drops
DocElements(n) ==
    [i \in 1..n |->
        IF i = 1 THEN Element("h", Repeat(Letters[i], MAX_CHARS_PER_PAGE - 4))
        ELSE Element("p", Repeat(Letters[i], MAX_CHARS_PER_PAGE - 2))]
    \o <<Element("p", <<>>)>>

GoodDoc(n) == <<Item(TRUE, DocElements(n))>>
BadDoc == <<Item(TRUE, DocElements(1)), Item(FALSE, <<>>)>>
NoDoc == <<>>

Docs == {GoodDoc(n) : n \in 0..MaxDocBlocks} \cup {BadDoc}

\* item.get_content().decode("utf-8") raises on an item that does not decode
Decodes(doc) == \A i \in 1..Len(doc) : doc[i].decodes

\* lines 145-153: the paragraphs of all items in spine order
RECURSIVE Extract(_)
Extract(doc) ==
    IF doc = <<>> THEN <<>>
    ELSE clean_html(Head(doc).elements) \o Extract(Tail(doc))

\* ------------------------------------------------------------------- state
VARIABLES
    users,        \* Mongo collection: user id -> stored page (the cursor record)
    book_cache,   \* user id -> [pages, message_id, owner]
    tasks,        \* handler invocations: kind, user, position, locals
    start_index,  \* navigation scenario: the cursor the scenario started from
    paragraphs,   \* pagination scenario: the input of split_pages
    pages,        \* pagination scenario: its result
    split_pc      \* pagination scenario: "off", "input" or "done"

vars == <<users, book_cache, tasks, start_index, paragraphs, pages, split_pc>>

\* dict / collection helpers
Put(f, k, v) == [x \in (DOMAIN f) \cup {k} |-> IF x = k THEN v ELSE f[x]]
Drop(f, k) == [x \in (DOMAIN f) \ {k} |-> f[x]]
Empty == [x \in {} |-> 0]

NoText == [text |-> <<>>, pos |-> 0, total |-> 0]
IdleTask == [kind |-> "idle", user |-> 0, pc |-> "idle", doc |-> NoDoc, text |-> NoText]

At(t, pc) == tasks[t].pc = pc
Goto(t, pc) == tasks' = [tasks EXCEPT ![t].pc = pc]

\* a slot is free before its first handler and once its handler has returned
\* ("done") or raised ("failed")
Free(t) == tasks[t].pc \in {"idle", "done", "failed"}

\* the handler's position after the synchronous part that ended with `out`;
\* a finished handler keeps no locals
Land(t, out, text) ==
    tasks' = [tasks EXCEPT ![t].pc = out,
                           ![t].doc = NoDoc,
                           ![t].text = IF out \in {"reply", "edit"} THEN text ELSE NoText]
Finish(t, pc) == Land(t, pc, NoText)

\* ---------------------------------------------------------------- send_page
\* The synchronous part of send_page (lines 184-202), up to its await.
\* has_message: update.message is set (a message update, not a callback query).
\* The progress percentage is not part of the text modelled here.
SendPage(db, cache, u, first, has_message) ==
    IF u \notin DOMAIN db \/ u \notin DOMAIN cache
    THEN [out |-> "return", text |-> NoText]
    ELSE LET page == db[u]
             total == Len(cache[u].pages)
         IN IF total = 0
            THEN [out |-> "failed", text |-> NoText]      \* ZeroDivisionError, line 192
            ELSE IF page >= total \/ page < -total
            THEN [out |-> "failed", text |-> NoText]      \* IndexError, line 197
            ELSE LET text == [text |-> cache[u].pages[(IF page < 0 THEN page + total ELSE page) + 1],
                              pos |-> page + 1, total |-> total]
                 IN IF first \/ cache[u].message_id = "None"
                    THEN IF has_message
                         THEN [out |-> "reply", text |-> text]
                         ELSE [out |-> "failed", text |-> NoText]  \* update.message is None
                    ELSE [out |-> "edit", text |-> text]

\* -------------------------------------------------------------- handle_epub
\* line 131: an upload arrives
StartUpload(t, u, doc, epub) ==
    /\ Free(t)
    /\ tasks' = [tasks EXCEPT ![t] =
            [kind |-> "upload", user |-> u, doc |-> doc, text |-> NoText,
             pc |-> IF epub THEN "download" ELSE "reject"]]
    /\ UNCHANGED <<users, book_cache, start_index, paragraphs, pages, split_pc>>

\* lines 135-137: the reply to a file that is no EPUB has been sent
UploadReject(t) ==
    /\ At(t, "reject")
    /\ Finish(t, "done")
    /\ UNCHANGED <<users, book_cache, start_index, paragraphs, pages, split_pc>>

\* lines 163-170: users.update_one(..., {"$set": {"page": 0}}, upsert=True)
ResetCursorKeep(db, u) == IF u \in DOMAIN db THEN db ELSE Put(db, u, 0)
ResetCursor(db, u) == Put(db, u, 0)

\* lines 172-177: book_cache[user_id] = {...}
RegisterBookKeep(cache, u, pgs, t) ==
    IF u \in DOMAIN cache THEN cache
    ELSE Put(cache, u, [pages |-> pgs, message_id |-> "None", owner |-> t])
RegisterBook(cache, u, pgs, t) ==
    Put(cache, u, [pages |-> pgs, message_id |-> "None", owner |-> t])

\* lines 139-179 after the download: read the book, paginate, reset the
\* cursor, register the session and run send_page up to its reply_text
UploadBuild(t) ==
    /\ At(t, "download")
    /\ LET u == tasks[t].user
           doc == tasks[t].doc
       IN IF ~Decodes(doc)
          THEN /\ Finish(t, "failed")                     \* UnicodeDecodeError, line 152
               /\ UNCHANGED <<users, book_cache>>
          ELSE LET db == ResetCursor(users, u)
                   cache == RegisterBook(book_cache, u, split_pages(Extract(doc)), t)
                   r == SendPage(db, cache, u, TRUE, TRUE)
               IN /\ users' = db
                  /\ book_cache' = cache
                  /\ Land(t, r.out, r.text)
    /\ UNCHANGED <<start_index, paragraphs, pages, split_pc>>

\* lines 203-208: reply_text has delivered the text; the dict that send_page
\* read at line 185 gets the message id (it may no longer be the cached one)
UploadReply(t) ==
    /\ At(t, "reply")
    /\ LET u == tasks[t].user
       IN book_cache' =
             IF u \in DOMAIN book_cache /\ book_cache[u].owner = t
             THEN [book_cache EXCEPT ![u].message_id = "msg", ![u].owner = 0]
             ELSE book_cache
    /\ Finish(t, "done")
    /\ UNCHANGED <<users, start_index, paragraphs, pages, split_pc>>


\* ---------------------------------------------------------------- callbacks
\* line 220: a button press arrives; the handler awaits query.answer()
StartCallback(t, u, kind) ==
    /\ Free(t)
    /\ tasks' = [tasks EXCEPT ![t] =
            [kind |-> kind, user |-> u, doc |-> NoDoc, text |-> NoText, pc |-> "answer"]]
    /\ UNCHANGED <<users, book_cache, start_index, paragraphs, pages, split_pc>>

\* line 233: if not data or not cache
SessionMissingCursorOnly(db, cache, u) == u \notin DOMAIN db
SessionMissing(db, cache, u) == u \notin DOMAIN db \/ u \notin DOMAIN cache

\* lines 239-241
AdvancePageNoClamp(page, total_pages) == page + 1
AdvancePage(page, total_pages) == IF page < total_pages - 1 THEN page + 1 ELSE page

\* lines 243-245
RetreatPageNoClamp(page, total_pages) == page - 1
RetreatPage(page, total_pages) == IF page > 0 THEN page - 1 ELSE page

\* line 249: users.delete_one({"user_id": user_id})
DeleteCursorAll(db, u) == Empty
DeleteCursorNone(db, u) == db
DeleteCursor(db, u) == Drop(db, u)

\* line 250: book_cache.pop(user_id, None)
PopBookNone(cache, u) == cache
PopBook(cache, u) == Drop(cache, u)

\* lines 229-278 after query.answer(): read cursor and session, move or clear,
\* store the cursor and run send_page up to its await
CallbackHandle(t) ==
    /\ At(t, "answer")
    /\ LET u == tasks[t].user
           kind == tasks[t].kind
       IN IF SessionMissing(users, book_cache, u)
          THEN /\ Finish(t, "done")                        \* line 234
               /\ UNCHANGED <<users, book_cache>>
          ELSE IF u \notin DOMAIN users \/ u \notin DOMAIN book_cache
          THEN /\ Finish(t, "failed")                      \* subscript of None, lines 236-237
               /\ UNCHANGED <<users, book_cache>>
          ELSE IF kind = "clear"
          THEN /\ users' = DeleteCursor(users, u)
               /\ book_cache' = PopBook(book_cache, u)
               /\ Goto(t, "notify")
          ELSE LET total_pages == Len(book_cache[u].pages)
                   page == IF kind = "next"
                           THEN AdvancePage(users[u], total_pages)
                           ELSE RetreatPage(users[u], total_pages)
                   db == [users EXCEPT ![u] = page]        \* lines 272-275
                   r == SendPage(db, book_cache, u, FALSE, FALSE)
               IN /\ users' = db
                  /\ UNCHANGED book_cache
                  /\ Land(t, r.out, r.text)
    /\ UNCHANGED <<start_index, paragraphs, pages, split_pc>>

\* lines 210-216: edit_message_text has delivered the text
CallbackEdit(t) ==
    /\ At(t, "edit")
    /\ Finish(t, "done")
    /\ UNCHANGED <<users, book_cache, start_index, paragraphs, pages, split_pc>>

\* lines 252-269: delete_message and send_message return.  The message deleted
\* is the one whose button was pressed; the reset notice is no page text.
ClearNotify(t) ==
    /\ At(t, "notify")
    /\ Finish(t, "done")
    /\ UNCHANGED <<users, book_cache, start_index, paragraphs, pages, split_pc>>

\* the process restarts: book_cache (line 45) and all handlers are gone, the
\* Mongo collection survives
Restart ==
    /\ book_cache # Empty \/ \E t \in Tasks : ~At(t, "idle")
    /\ book_cache' = Empty
    /\ tasks' = [t \in Tasks |-> IdleTask]
    /\ UNCHANGED <<users, start_index, paragraphs, pages, split_pc>>

\* ------------------------------------------------------- the specification
Init ==
    /\ users = Empty
    /\ book_cache = Empty
    /\ tasks = [t \in Tasks |-> IdleTask]
    /\ start_index = 0
    /\ paragraphs = <<>>
    /\ pages = <<>>
    /\ split_pc = "off"

Next ==
    \/ \E t \in Tasks, u \in Readers, doc \in Docs, epub \in BOOLEAN :
            StartUpload(t, u, doc, epub)
    \/ \E t \in Tasks : UploadReject(t)
    \/ \E t \in Tasks : UploadBuild(t)
    \/ \E t \in Tasks : UploadReply(t)
    \/ \E t \in Tasks, u \in Readers, kind \in {"next", "prev", "clear"} :
            StartCallback(t, u, kind)
    \/ \E t \in Tasks : CallbackHandle(t)
    \/ \E t \in Tasks : CallbackEdit(t)
    \/ \E t \in Tasks : ClearNotify(t)
    \/ Restart

Spec == Init /\ [][Next]_vars


\* ------------------------------------------------- the navigation scenario
\* One user with a session of n >= 1 pages at index start_index, and k button
\* presses of one kind ("next" or "prev") all dispatched before any is handled.
NavTask(u, kind) ==
    [kind |-> kind, user |-> u, pc |-> "answer", doc |-> NoDoc, text |-> NoText]

InitNav ==
    \E u \in Users, n \in 1..MaxNavPages, k \in 1..NumTasks, kind \in {"next", "prev"} :
      \E i \in 0..(n - 1) :
        /\ users = Put(Empty, u, i)
        /\ book_cache = Put(Empty, u, [pages |-> split_pages(Extract(GoodDoc(n))),
                                       message_id |-> "msg", owner |-> 0])
        /\ tasks = [t \in Tasks |-> IF t <= k THEN NavTask(u, kind) ELSE IdleTask]
        /\ start_index = i
        /\ paragraphs = <<>>
        /\ pages = <<>>
        /\ split_pc = "off"

NextNav ==
    \/ \E t \in Tasks : CallbackHandle(t)
    \/ \E t \in Tasks : CallbackEdit(t)

SpecNav == InitNav /\ [][NextNav]_vars

\* ------------------------------------------------- the pagination scenario
\* A block is 1..MaxTokens tokens joined by single spaces; block i is written
\* in the i-th letter, so that a page shows which block its text came from.
TokenLens == {1, 2, MAX_CHARS_PER_PAGE - 1, MAX_CHARS_PER_PAGE, MAX_CHARS_PER_PAGE + 1}

RECURSIVE JoinTokens(_, _)
JoinTokens(i, lens) ==
    IF Len(lens) = 1 THEN Repeat(Letters[i], lens[1])
    ELSE Repeat(Letters[i], Head(lens)) \o <<SP>> \o JoinTokens(i, Tail(lens))

TokenShapes == UNION {[1..k -> TokenLens] : k \in 1..MaxTokens}

ParagraphInputs ==
    UNION {{[i \in 1..n |-> JoinTokens(i, shapes[i])] : shapes \in [1..n -> TokenShapes]}
           : n \in 0..MaxBlocks}

InitPages ==
    /\ users = Empty
    /\ book_cache = Empty
    /\ tasks = [t \in Tasks |-> IdleTask]
    /\ start_index = 0
    /\ paragraphs \in ParagraphInputs
    /\ pages = <<>>
    /\ split_pc = "input"

\* line 155: pages = split_pages(paragraphs)
Paginate ==
    /\ split_pc = "input"
    /\ pages' = split_pages(paragraphs)
    /\ split_pc' = "done"
    /\ UNCHANGED <<users, book_cache, tasks, start_index, paragraphs>>

NextPages == Paginate

SpecPages == InitPages /\ [][NextPages]_vars


\* ================================================================== claims
\* the handler in slot t runs its step from position `from` (a restart, which
\* drops the handler, is not a step of the handler)
Steps(t, from) == tasks[t].pc = from /\ tasks'[t].pc \notin {from, "idle"}

HasSession(u) == u \in DOMAIN book_cache
HasCursor(u) == u \in DOMAIN users
PagesOf(u) == book_cache[u].pages
DocPages(t) == split_pages(Extract(tasks[t].doc))

\* the step in which the upload in slot t resets the cursor and registers its book
UploadCommits(t) == Steps(t, "download") /\ Decodes(tasks[t].doc)

\* C1: whenever a user has a Book Session, the stored cursor is an index of
\* that book: 0 <= page < len(pages).
C1_CursorInRange ==
    \A u \in Users :
        (HasSession(u) /\ HasCursor(u)) =>
            (0 <= users[u] /\ users[u] < Len(PagesOf(u)))

\* C2: an upload is atomic for its user: the step that registers a new book
\* is the step that resets the cursor, so that no handler finds the new book
\* with the previous cursor or the previous book with the reset cursor.
C2_UploadAtomic ==
    [][\A u \in Users :
        /\ \A t \in Tasks :
              (tasks[t].user = u /\ UploadCommits(t)) =>
                  /\ HasCursor(u)' /\ users'[u] = 0
                  /\ HasSession(u)'
                  /\ book_cache'[u].pages = DocPages(t)
                  /\ book_cache'[u].owner = t
        /\ (HasSession(u)' /\ (~HasSession(u) \/ book_cache'[u].pages # book_cache[u].pages)) =>
              /\ HasCursor(u)' /\ users'[u] = 0
              /\ \E t \in Tasks : tasks[t].user = u /\ UploadCommits(t)
      ]_vars

\* an upload has committed and awaits its reply while a button press of the
\* same user waits to be handled
C2_Witness ==
    \E t1, t2 \in Tasks :
        /\ tasks[t1].kind = "upload" /\ tasks[t1].pc = "reply"
        /\ tasks[t2].kind \in {"next", "prev"} /\ tasks[t2].pc = "answer"
        /\ tasks[t1].user = tasks[t2].user
        /\ HasSession(tasks[t1].user) /\ book_cache[tasks[t1].user].owner = t1
        /\ users[tasks[t1].user] = 0

\* C3: k button presses of one kind, handled concurrently, are linearized:
\* once j of them have stored their page, the cursor has moved j steps from
\* where it started, clamped to the book; with all k handled it is
\* min(i + k, n - 1) for "next" and max(i - k, 0) for "prev".
NavStored == {t \in Tasks : tasks[t].kind \in {"next", "prev"} /\ tasks[t].pc # "answer"}

C3_NavLinearized ==
    \A u \in DOMAIN users :
        LET j == Cardinality(NavStored)
            n == Len(PagesOf(u))
        IN IF \E t \in Tasks : tasks[t].kind = "next"
           THEN users[u] = Min(start_index + j, n - 1)
           ELSE users[u] = Max(start_index - j, 0)

\* two presses have been handled and moved the cursor two pages
C3_Witness ==
    /\ Cardinality(NavStored) >= 2
    /\ \A t \in Tasks : tasks[t].pc \in {"idle", "done"}
    /\ \E u \in DOMAIN users : users[u] = start_index + 2 \/ users[u] + 2 = start_index

\* C4: a "next" press for a user with a Book Session and stored cursor p
\* stores min(p + 1, len(pages) - 1).
C4_NextStores ==
    [][\A t \in Tasks :
        LET u == tasks[t].user IN
        (tasks[t].kind = "next" /\ Steps(t, "answer") /\ HasSession(u) /\ HasCursor(u)) =>
            (HasCursor(u)' /\ users'[u] = Min(users[u] + 1, Len(PagesOf(u)) - 1))
      ]_vars

\* C5: a "prev" press for a user with a Book Session and stored cursor p
\* stores max(p - 1, 0); at index 0 the cursor stays 0.
C5_PrevStores ==
    [][\A t \in Tasks :
        LET u == tasks[t].user IN
        (tasks[t].kind = "prev" /\ Steps(t, "answer") /\ HasSession(u) /\ HasCursor(u)) =>
            (HasCursor(u)' /\ users'[u] = Max(users[u] - 1, 0))
      ]_vars

\* a "prev" press went from the second page to the first
C5_Witness ==
    \E t \in Tasks :
        /\ tasks[t].kind = "prev" /\ tasks[t].pc = "edit"
        /\ tasks[t].text.pos = 1 /\ tasks[t].text.total >= 2
        /\ users[tasks[t].user] = 0

\* C6: an upload whose book has n >= 1 pages stores cursor 0, whatever the
\* cursor was, and its render is pages[0] at position 1 of n.
C6_UploadResets ==
    [][\A t \in Tasks :
        LET u == tasks[t].user
            pgs == DocPages(t)
        IN (UploadCommits(t) /\ Len(pgs) >= 1) =>
              /\ HasCursor(u)' /\ users'[u] = 0
              /\ tasks'[t].pc = "reply"
              /\ tasks'[t].text = [text |-> pgs[1], pos |-> 1, total |-> Len(pgs)]
      ]_vars

\* a press rendered page 2 of a two-page book and still awaits its edit; the
\* upload of a one-page book then committed: the cursor it found was 1
C6_Witness ==
    \E t1, t2 \in Tasks :
        /\ tasks[t1].kind = "upload" /\ tasks[t1].pc = "reply"
        /\ tasks[t1].text.pos = 1 /\ tasks[t1].text.total = 1
        /\ tasks[t2].user = tasks[t1].user /\ tasks[t2].pc = "edit"
        /\ tasks[t2].text.pos = 2 /\ tasks[t2].text.total = 2
        /\ users[tasks[t1].user] = 0

\* C7: an upload whose extraction yields no blocks creates no Book Session,
\* leaves the cursor record as it was and does not fail.
C7_EmptyUploadRejected ==
    [][\A t \in Tasks :
        (UploadCommits(t) /\ DocPages(t) = <<>>) =>
            /\ book_cache' = book_cache
            /\ users' = users
            /\ tasks'[t].pc # "failed"
      ]_vars

\* C8: a "clear" press for a user with a Book Session and a cursor record
\* removes both, and neither comes back except by an upload of that user.
C8_ClearRemoves ==
    [][\A u \in Users :
        /\ \A t \in Tasks :
              (tasks[t].user = u /\ tasks[t].kind = "clear" /\ Steps(t, "answer")
                  /\ HasSession(u) /\ HasCursor(u)) =>
                  (~HasSession(u)' /\ ~HasCursor(u)')
        /\ ((~HasSession(u) /\ HasSession(u)') \/ (~HasCursor(u) /\ HasCursor(u)')) =>
              \E t \in Tasks : tasks[t].user = u /\ UploadCommits(t)
      ]_vars

\* a "clear" press has removed session and cursor and awaits its notices
C8_Witness ==
    \E t \in Tasks :
        /\ tasks[t].kind = "clear" /\ tasks[t].pc = "notify"
        /\ ~HasSession(tasks[t].user) /\ ~HasCursor(tasks[t].user)

\* C9: a button press for a user with no Book Session returns without
\* failing and changes neither the stored cursors nor book_cache.
C9_NoSessionNoop ==
    [][\A t \in Tasks :
        (tasks[t].kind \in {"next", "prev", "clear"} /\ Steps(t, "answer")
            /\ ~HasSession(tasks[t].user)) =>
            /\ tasks'[t].pc = "done"
            /\ users' = users
            /\ book_cache' = book_cache
      ]_vars

\* after a restart (the cursor record survived, the session did not) a press
\* has returned
C9_Witness ==
    \E t \in Tasks :
        /\ tasks[t].kind \in {"next", "prev", "clear"} /\ tasks[t].pc = "done"
        /\ HasCursor(tasks[t].user) /\ ~HasSession(tasks[t].user)

\* C10: split_pages never reorders content: read page after page, the text
\* of block i comes entirely before the text of block j whenever i < j.
BlockOf(c) == CHOOSE i \in 1..Len(Letters) : Letters[i] = c
PageLetters == SelectSeq(Concat(pages), LAMBDA c : ~IsSpace(c))

C10_PageOrder ==
    split_pc = "done" =>
        \A a, b \in 1..Len(PageLetters) :
            a < b => BlockOf(PageLetters[a]) <= BlockOf(PageLetters[b])


\* ----------------------------------------------- the block-length scenario
\* 0..MaxLenBlocks blocks, each one word of 1..MAX_CHARS_PER_PAGE + 1
\* characters: every way the lengths of successive blocks can fill pages.
LenInputs ==
    UNION {{[i \in 1..n |-> Repeat(Letters[i], lens[i])]
                : lens \in [1..n -> 1..(MAX_CHARS_PER_PAGE + 1)]}
           : n \in 0..MaxLenBlocks}

InitLens ==
    /\ users = Empty
    /\ book_cache = Empty
    /\ tasks = [t \in Tasks |-> IdleTask]
    /\ start_index = 0
    /\ paragraphs \in LenInputs
    /\ pages = <<>>
    /\ split_pc = "input"

SpecLens == InitLens /\ [][NextPages]_vars

\* ------------------------------------------------------- the word scenario
\* One block of 1..MaxWordTokens tokens of 0..MAX_CHARS_PER_PAGE + 1
\* characters (an empty token is two adjacent spaces); clean_html strips the
\* text, so the first and the last token are not empty.
WordShapes ==
    UNION {{lens \in [1..k -> 0..(MAX_CHARS_PER_PAGE + 1)] : lens[1] > 0 /\ lens[k] > 0}
           : k \in 1..MaxWordTokens}

InitWords ==
    /\ users = Empty
    /\ book_cache = Empty
    /\ tasks = [t \in Tasks |-> IdleTask]
    /\ start_index = 0
    /\ paragraphs \in {<<JoinTokens(1, lens)>> : lens \in WordShapes}
    /\ pages = <<>>
    /\ split_pc = "input"

SpecWords == InitWords /\ [][NextPages]_vars

\* ------------------------------------------------------ pagination claims
Fits(p) == Len(p) <= MAX_CHARS_PER_PAGE
AllFit == \A i \in 1..Len(paragraphs) : Fits(paragraphs[i])

RECURSIVE SumLen(_)
SumLen(ps) == IF ps = <<>> THEN 0 ELSE Len(Head(ps)) + 2 + SumLen(Tail(ps))

\* C11: no blocks give no pages; one block shorter than the budget gives one
\* page; blocks that fit one budget together (each with its separator) give
\* one page.
C11_PageCount ==
    split_pc = "done" =>
        /\ paragraphs = <<>> => pages = <<>>
        /\ (Len(paragraphs) = 1 /\ Len(paragraphs[1]) < MAX_CHARS_PER_PAGE) => Len(pages) = 1
        /\ (paragraphs # <<>> /\ SumLen(paragraphs) <= MAX_CHARS_PER_PAGE) => Len(pages) = 1

\* the parts of a page between its paragraph separators
RECURSIVE PiecesFrom(_, _)
PiecesFrom(cur, rest) ==
    IF rest = <<>> THEN (IF cur = <<>> THEN <<>> ELSE <<cur>>)
    ELSE IF Head(rest) = NL
    THEN (IF cur = <<>> THEN <<>> ELSE <<cur>>) \o PiecesFrom(<<>>, Tail(rest))
    ELSE PiecesFrom(Append(cur, Head(rest)), Tail(rest))

Pieces(page) == PiecesFrom(<<>>, page)

RECURSIVE AllPieces(_)
AllPieces(pgs) == IF pgs = <<>> THEN <<>> ELSE Pieces(Head(pgs)) \o AllPieces(Tail(pgs))

\* C12: when every block fits the budget, the pages read in order, without
\* their separators, are the blocks in order: none lost, duplicated or cut.
C12_PagesRebuildBlocks ==
    (split_pc = "done" /\ AllFit) =>
        /\ AllPieces(pages) = paragraphs
        /\ SelectSeq(Concat(pages), LAMBDA c : c # NL) = Concat(paragraphs)

\* three or more fitting blocks, on two or more pages, two of them sharing one
C12_Witness ==
    /\ split_pc = "done" /\ AllFit
    /\ Len(paragraphs) >= 3
    /\ Cardinality({i \in 1..Len(pages) : pages[i] # <<>>}) >= 2
    /\ \E i \in 1..Len(pages) : Len(Pieces(pages[i])) >= 2

\* a page that the accumulator produced: it holds no text of an over-budget block
FromAccumulator(page) ==
    \A k \in 1..Len(page) :
        IsSpace(page[k]) \/ Fits(paragraphs[BlockOf(page[k])])

\* C13: every page flushed from the accumulator, the last one included, is
\* no longer than the budget.
C13_AccumulatorPagesFit ==
    split_pc = "done" =>
        \A i \in 1..Len(pages) :
            FromAccumulator(pages[i]) => Len(pages[i]) <= MAX_CHARS_PER_PAGE

\* a block of exactly the budget became a page, next to an over-budget block
C13_Witness ==
    /\ split_pc = "done"
    /\ \E i \in 1..Len(paragraphs) : ~Fits(paragraphs[i])
    /\ \E i \in 1..Len(pages) :
          /\ FromAccumulator(pages[i])
          /\ Len(pages[i]) = MAX_CHARS_PER_PAGE
    /\ \E i \in 1..Len(pages) : Len(Pieces(pages[i])) >= 2

\* C14: the fallback path never emits an empty page, whatever the tokens of
\* the over-budget block.
C14_FallbackNoEmptyPage ==
    (split_pc = "done" /\ Len(paragraphs) = 1 /\ ~Fits(paragraphs[1])) =>
        \A i \in 1..Len(pages) : pages[i] # <<>>

RECURSIVE JoinSpace(_)
JoinSpace(ss) ==
    IF ss = <<>> THEN <<>>
    ELSE IF Len(ss) = 1 THEN ss[1]
    ELSE Head(ss) \o <<SP>> \o JoinSpace(Tail(ss))

Words(str) == SelectSeq(Split(str), LAMBDA w : w # <<>>)

TokensAtMost(str, n) == \A k \in 1..Len(Split(str)) : Len(Split(str)[k]) <= n
SingleSpaced(str) == \A k \in 1..Len(Split(str)) : Split(str)[k] # <<>>

\* C15 as stated: an over-budget block whose tokens are no longer than the
\* budget gives fallback pages strictly under the budget which, joined by
\* single spaces, hold the block's tokens in order.
C15_AsStated ==
    (split_pc = "done" /\ ~Fits(paragraphs[1])
        /\ TokensAtMost(paragraphs[1], MAX_CHARS_PER_PAGE)) =>
        /\ \A i \in 1..Len(pages) : Len(pages[i]) < MAX_CHARS_PER_PAGE
        /\ Words(JoinSpace(pages)) = Words(paragraphs[1])
        /\ SingleSpaced(paragraphs[1]) => JoinSpace(pages) = paragraphs[1]

\* C15 amended: an over-budget block whose tokens are strictly shorter than
\* the budget gives fallback pages strictly under the budget which, joined
\* by single spaces, hold the block's tokens in order (and are the block
\* itself when single spaces separate its tokens).
C15_FallbackPacks ==
    (split_pc = "done" /\ ~Fits(paragraphs[1])
        /\ TokensAtMost(paragraphs[1], MAX_CHARS_PER_PAGE - 1)) =>
        /\ \A i \in 1..Len(pages) : Len(pages[i]) < MAX_CHARS_PER_PAGE
        /\ Words(JoinSpace(pages)) = Words(paragraphs[1])
        /\ SingleSpaced(paragraphs[1]) => JoinSpace(pages) = paragraphs[1]

\* a block of short tokens spread over pages, one page holding two tokens
C15_Witness ==
    /\ split_pc = "done" /\ ~Fits(paragraphs[1])
    /\ TokensAtMost(paragraphs[1], MAX_CHARS_PER_PAGE - 1)
    /\ SingleSpaced(paragraphs[1])
    /\ Len(pages) >= 2
    /\ \E i \in 1..Len(pages) : Len(Words(pages[i])) >= 2

\* C20: every page of split_pages is a non-empty string when the blocks are
\* non-empty.
C20_NoEmptyPage ==
    split_pc = "done" => \A i \in 1..Len(pages) : pages[i] # <<>>

\* ---------------------------------------------------------- session claims
Decodable(doc) == SelectSeq(doc, LAMBDA item : item.decodes)

\* C16: an upload with a spine item that cannot be decoded does not abort:
\* the item is skipped and the session holds the pages of the decodable
\* items in spine order.
C16_UndecodableSkipped ==
    [][\A t \in Tasks :
          (Steps(t, "download") /\ ~Decodes(tasks[t].doc)) =>
              /\ tasks'[t].pc # "failed"
              /\ tasks[t].user \in DOMAIN book_cache'
              /\ book_cache'[tasks[t].user].pages
                     = split_pages(Extract(Decodable(tasks[t].doc)))]_vars

\* C19: in every reachable state a user who has a Book Session also has a
\* stored cursor record.
C19_SessionHasCursor ==
    \A u \in Users : HasSession(u) => HasCursor(u)

\* a clear has removed both entries and a later upload has written both again
C19_Witness ==
    \E u \in Users, t \in Tasks :
        /\ tasks[t].kind = "clear" /\ tasks[t].user = u /\ tasks[t].pc = "notify"
        /\ HasSession(u) /\ HasCursor(u)

\* no handler of user u is in progress after the step
QuietAfter(u) ==
    \A t \in Tasks : tasks'[t].user = u => tasks'[t].pc \in {"idle", "done", "failed"}

\* C18: when an upload's first render is delivered and leaves no handler of
\* the user in progress, the delivered text is the page at the stored cursor
\* of the current book; and a next/prev callback of a user who has a
\* non-empty book does not fail, message id set or not.
C18_DisplayMatchesCursor ==
    [][\A t \in Tasks :
          LET u == tasks[t].user IN
          /\ (Steps(t, "reply") /\ QuietAfter(u)
                /\ u \in DOMAIN book_cache' /\ u \in DOMAIN users') =>
                 /\ users'[u] \in 0..(Len(book_cache'[u].pages) - 1)
                 /\ tasks[t].text.pos = users'[u] + 1
                 /\ tasks[t].text.text = book_cache'[u].pages[users'[u] + 1]
          /\ (Steps(t, "answer") /\ tasks[t].kind \in {"next", "prev"}
                /\ HasSession(u) /\ HasCursor(u) /\ PagesOf(u) # <<>>) =>
                 tasks'[t].pc # "failed"]_vars

\* ------------------------------------------------- the two-user scenario
\* the handlers of Spec, started for any of the users
NextUsers ==
    \/ \E t \in Tasks, u \in Users, doc \in Docs, epub \in BOOLEAN :
            StartUpload(t, u, doc, epub)
    \/ \E t \in Tasks : UploadReject(t)
    \/ \E t \in Tasks : UploadBuild(t)
    \/ \E t \in Tasks : UploadReply(t)
    \/ \E t \in Tasks, u \in Users, kind \in {"next", "prev", "clear"} :
            StartCallback(t, u, kind)
    \/ \E t \in Tasks : CallbackHandle(t)
    \/ \E t \in Tasks : CallbackEdit(t)
    \/ \E t \in Tasks : ClearNotify(t)
    \/ Restart

SpecUsers == Init /\ [][NextUsers]_vars

\* the handler in slot t takes a step (a restart is no handler step)
HandlerStep(t) ==
    /\ tasks[t].pc \notin {"idle", "done", "failed"}
    /\ tasks'[t].pc \notin {tasks[t].pc, "idle"}

\* the entry of key k in a collection, absent or present with its value
EntryOf(f, k) == IF k \in DOMAIN f THEN <<f[k]>> ELSE <<>>

\* C17: a step of a handler of user u leaves the Book Session and the cursor
\* record of every other user unchanged.
C17_UserIsolation ==
    [][\A t \in Tasks :
          HandlerStep(t) =>
              \A v \in Users \ {tasks[t].user} :
                  /\ EntryOf(book_cache', v) = EntryOf(book_cache, v)
                  /\ EntryOf(users', v) = EntryOf(users, v)]_vars

\* one user has cleared their book while the other user's book and cursor stand
C17_Witness ==
    \E t \in Tasks, v \in Users :
        /\ tasks[t].kind = "clear" /\ tasks[t].pc = "notify"
        /\ v # tasks[t].user
        /\ HasSession(v) /\ HasCursor(v)
        /\ ~HasSession(tasks[t].user) /\ ~HasCursor(tasks[t].user)

====
